---- MODULE Spec2Model ----
(***************************************************************************)
(* Model of the w90 crate: the Wannier90 input data model and its          *)
(* validator (input.rs), the text serializer (serialize.rs) and the        *)
(* Quantum ESPRESSO stage derivations (qe_workflow.rs).                    *)
(*                                                                         *)
(* Representation.                                                         *)
(*  - Option<T>: None is <<>>, Some(v) is <<v>>.                           *)
(*  - Result<T, E>: [ok |-> TRUE, val |-> v] or [ok |-> FALSE, err |-> e]. *)
(*  - an enum value is a record with a field kind naming the variant.      *)
(*  - a String is the sequence of its tokens. A token is a separator       *)
(*    character (" ", "=", ":", ";", ",", "\n") or a maximal run of other  *)
(*    characters, so two strings are equal iff their token sequences are.  *)
(*  - f64 values are integer-valued; Display prints them as integers, as   *)
(*    Rust's `{}` prints 2.0 as "2".                                       *)
(***************************************************************************)
EXTENDS Integers, Sequences, FiniteSets, TLC

VARIABLES call

vars == <<call>>

----------------------------------------------------------------------------
(* Bounds of the model. *)

MaxProj == 3
MaxAtoms == 2
MaxAngMtm == 2
MaxIter == 2
MaxCoord == 1
MaxAlat == 2
MaxGrid == 2

----------------------------------------------------------------------------
(* Option and Result. *)

None == <<>>
Some(v) == <<v>>
IsSome(o) == o # <<>>
Unwrap(o) == o[1]

Ok(v) == [ok |-> TRUE, val |-> v]
Err(e) == [ok |-> FALSE, err |-> e]

----------------------------------------------------------------------------
(* Strings as token sequences. *)

NL == "\n"

Display(n) == ToString(n)

RECURSIVE Join(_, _)
Join(list, sep) ==
    IF list = <<>> THEN <<>>
    ELSE IF Len(list) = 1 THEN list[1]
    ELSE list[1] \o sep \o Join(Tail(list), sep)

----------------------------------------------------------------------------
(* input.rs: the validator. *)

(* input::Error::RandomCount collected in an ErrorList. *)
ErrorList(errs) == [errs |-> errs]

Random == [kind |-> "Random"]

(* validate with the count compared one too high. *)
validate_off_by_one(input) ==
    LET random_count ==
            Cardinality({i \in 1..Len(input.projections) :
                            input.projections[i] = Random})
        errs == IF random_count > 2 THEN <<"RandomCount">> ELSE <<>>
    IN  IF Len(errs) = 0 THEN Ok(<<>>) ELSE Err(ErrorList(errs))

validate(input) ==
    LET random_count ==
            Cardinality({i \in 1..Len(input.projections) :
                            input.projections[i] = Random})
        errs == IF random_count > 1 THEN <<"RandomCount">> ELSE <<>>
    IN  IF Len(errs) = 0 THEN Ok(<<>>) ELSE Err(ErrorList(errs))

----------------------------------------------------------------------------
(* serialize.rs: the Field formatters. *)

MLWFIterationModeValue(mode) ==
    Display(IF mode.kind = "ProjectionOnly" THEN 0 ELSE mode.num_iter)

LatticeUnitsValue(units) ==
    IF units = "Bohr" THEN <<"bohr">> ELSE <<"ang">>

AngularMomentumValue(l) ==
    CASE l = "S" -> <<"l", "=", "0">>
      [] l = "P" -> <<"l", "=", "1">>
      [] l = "D" -> <<"l", "=", "2">>
      [] l = "F" -> <<"l", "=", "3">>

ProjectionSiteValue(site) ==
    CASE site.kind = "Species" -> <<site.species>>
      [] site.kind = "CenterCartesian" ->
            <<"c", " ", "=", " ", Display(site.r[1]), ",", " ",
              Display(site.r[2]), ",", " ", Display(site.r[3])>>
      [] site.kind = "CenterCrystal" ->
            <<"f", " ", "=", " ", Display(site.r[1]), ",", " ",
              Display(site.r[2]), ",", " ", Display(site.r[3])>>

(* The channel loop with ";" pushed after every channel. *)
RECURSIVE PushAngMtm_trailing(_, _, _)
PushAngMtm_trailing(proj, ang_mtm, i) ==
    IF i > Len(ang_mtm) THEN proj
    ELSE PushAngMtm_trailing(proj \o AngularMomentumValue(ang_mtm[i]) \o <<";">>,
                             ang_mtm, i + 1)

(* The loop over ang_mtm: ";" is pushed before every channel but the first. *)
RECURSIVE PushAngMtm(_, _, _)
PushAngMtm(proj, ang_mtm, i) ==
    IF i > Len(ang_mtm) THEN proj
    ELSE PushAngMtm(proj \o (IF i # 1 THEN <<";">> ELSE <<>>)
                         \o AngularMomentumValue(ang_mtm[i]),
                    ang_mtm, i + 1)

ProjectionValue(p) ==
    IF p.kind = "Random" THEN <<"random">>
    ELSE
      LET p0 == ProjectionSiteValue(p.site) \o <<":">>
          p1 == PushAngMtm(p0, p.ang_mtm, 1)
          p2 == IF IsSome(p.zaxis)
                THEN p1 \o <<":", "z", "=", Display(Unwrap(p.zaxis)[1]), ",",
                             Display(Unwrap(p.zaxis)[2]), ",",
                             Display(Unwrap(p.zaxis)[3])>>
                ELSE p1
          p3 == IF IsSome(p.xaxis)
                THEN p2 \o <<":", "x", "=", Display(Unwrap(p.xaxis)[1]), ",",
                             Display(Unwrap(p.xaxis)[2]), ",",
                             Display(Unwrap(p.xaxis)[3])>>
                ELSE p2
          p4 == IF IsSome(p.radial)
                THEN p3 \o <<":", "r", "=", Display(Unwrap(p.radial))>>
                ELSE p3
          p5 == IF IsSome(p.zona)
                THEN p4 \o <<":", "zona", "=", Display(Unwrap(p.zona))>>
                ELSE p4
      IN  p5

----------------------------------------------------------------------------
(* serialize.rs: the sections of the document. *)

push_bool_field(lines, name, b) ==
    IF IsSome(b)
    THEN LET val == IF Unwrap(b) THEN ".true." ELSE ".false."
         IN  Append(lines, <<name, "=", val>>)
    ELSE lines

make_header(input) ==
    LET l3 == << <<"num_bands", " ", "=", " ", Display(input.num_bands)>>,
                 <<"num_wann", " ", "=", " ", Display(input.num_wann)>>,
                 <<"num_iter", " ", "=", " ",
                   MLWFIterationModeValue(input.mlwf_iteration_mode)>> >>
        lines == push_bool_field(l3, "num_iter", input.write_hr)
    IN  Join(lines, <<NL>>)

make_disentanglement(dis) ==
    LET lines ==
          << <<"dis_win_min", " ", "=", " ", Display(dis.dis_win_min)>>,
             <<"dis_win_max", " ", "=", " ", Display(dis.dis_win_max)>>,
             <<"dis_froz_min", " ", "=", " ", Display(dis.dis_froz_min)>>,
             <<"dis_froz_max", " ", "=", " ", Display(dis.dis_froz_max)>>,
             <<"dis_num_iter", " ", "=", " ", Display(dis.dis_num_iter)>>,
             <<"dis_mix_ratio", " ", "=", " ", Display(dis.dis_mix_ratio)>> >>
    IN  Join(lines, <<NL>>)

make_projections(input) ==
    LET l1 == push_bool_field(<<>>, "spinors", Some(input.spinors))
        l2 == Append(l1, <<"begin", " ", "projections">>)
        l3 == IF IsSome(input.projection_units)
              THEN Append(l2, LatticeUnitsValue(Unwrap(input.projection_units)))
              ELSE l2
        l4 == l3 \o [i \in 1..Len(input.projections) |-> ProjectionValue(input.projections[i])]
        lines == Append(l4, <<"end", " ", "projections">>)
    IN  Join(lines, <<NL>>)

make_unit_cell(input) ==
    LET cell == input.unit_cell_cart
        CellLine(a) == <<" ", " ", Display(a[1]), " ", " ", Display(a[2]),
                         " ", " ", Display(a[3])>>
        lines == << <<"begin", " ", "unit_cell_cart">>,
                    LatticeUnitsValue(cell.units) >>
                 \o [i \in 1..Len(cell.cell) |-> CellLine(cell.cell[i])]
                 \o << <<"end", " ", "unit_cell_cart">> >>
    IN  Join(lines, <<NL>>)

(* make_positions closing every frame with `end atoms_cart`. *)
make_positions_cart_end(input) ==
    LET pos == input.positions
        l1 == CASE pos.coordinate_type = "BohrCartesian" ->
                     << <<"begin", " ", "atoms_cart">>, <<"bohr">> >>
                [] pos.coordinate_type = "AngstromCartesian" ->
                     << <<"begin", " ", "atoms_cart">>, <<"ang">> >>
                [] pos.coordinate_type = "Crystal" ->
                     << <<"begin", " ", "atoms_frac">> >>
        CoordLine(coord) == <<" ", coord.species, " ", Display(coord.r[1]),
                              " ", Display(coord.r[2]), " ", Display(coord.r[3])>>
        l2 == l1 \o [i \in 1..Len(pos.coordinates) |-> CoordLine(pos.coordinates[i])]
        lines == Append(l2, <<"end", " ", "atoms_cart">>)
    IN  Join(lines, <<NL>>)

make_positions(input) ==
    LET pos == input.positions
        l1 == CASE pos.coordinate_type = "BohrCartesian" ->
                     << <<"begin", " ", "atoms_cart">>, <<"bohr">> >>
                [] pos.coordinate_type = "AngstromCartesian" ->
                     << <<"begin", " ", "atoms_cart">>, <<"ang">> >>
                [] pos.coordinate_type = "Crystal" ->
                     << <<"begin", " ", "atoms_frac">> >>
        CoordLine(coord) == <<" ", coord.species, " ", Display(coord.r[1]),
                              " ", Display(coord.r[2]), " ", Display(coord.r[3])>>
        l2 == l1 \o [i \in 1..Len(pos.coordinates) |-> CoordLine(pos.coordinates[i])]
        lines == CASE pos.coordinate_type \in {"BohrCartesian", "AngstromCartesian"} ->
                        Append(l2, <<"end", " ", "atoms_cart">>)
                   [] pos.coordinate_type = "Crystal" ->
                        Append(l2, <<"end", " ", "atoms_frac">>)
    IN  Join(lines, <<NL>>)

(* qe::pw::input::generate_uniform_kpoints lives in the qe crate. The grid  *)
(* point (i0/n0, i1/n1, i2/n2) is kept as its three <<numerator,            *)
(* denominator>> pairs.                                                     *)
generate_uniform_kpoints(nk) ==
    [idx \in 1..(nk[1] * nk[2] * nk[3]) |->
        LET j == idx - 1
        IN  << <<j \div (nk[2] * nk[3]), nk[1]>>,
               <<(j \div nk[3]) % nk[2], nk[2]>>,
               <<j % nk[3], nk[3]>> >>]

(* `{}` of the f64 i/n: one token standing for its decimal expansion. *)
DisplayFrac(q) ==
    IF q[1] = 0 THEN "0" ELSE ToString(q[1]) \o "/" \o ToString(q[2])

make_kpoints(input) ==
    LET nk == input.k_points
        ks == generate_uniform_kpoints(nk)
        KLine(k) == <<DisplayFrac(k[1]), " ", DisplayFrac(k[2]), " ",
                      DisplayFrac(k[3])>>
        lines == << <<"mp_grid", " ", "=", " ", Display(nk[1]), " ",
                      Display(nk[2]), " ", Display(nk[3])>>,
                    <<"begin", " ", "kpoints">> >>
                 \o [i \in 1..Len(ks) |-> KLine(ks[i])]
                 \o << <<"end", " ", "kpoints">> >>
    IN  Join(lines, <<NL>>)

(* impl From<input::ErrorList> for Error *)
ErrorInput(errs) == [kind |-> "Input", errs |-> errs]

(* The sections with the disentanglement block pushed after the projections. *)
input_text_late_dis(input) ==
    LET s1 == <<make_header(input), make_projections(input)>>
        s2 == IF IsSome(input.disentanglement)
              THEN Append(s1, make_disentanglement(Unwrap(input.disentanglement)))
              ELSE s1
        input_sections == s2 \o <<make_unit_cell(input), make_positions(input),
                                  make_kpoints(input)>>
    IN  Join(input_sections, <<NL>>)

(* make_input_file after validation: the sections, joined by newlines. *)
input_text(input) ==
    LET header == make_header(input)
        s1 == <<header>>
        s2 == IF IsSome(input.disentanglement)
              THEN Append(s1, make_disentanglement(Unwrap(input.disentanglement)))
              ELSE s1
        input_sections == s2 \o <<make_projections(input), make_unit_cell(input),
                                  make_positions(input), make_kpoints(input)>>
    IN  Join(input_sections, <<NL>>)

(* make_input_file without the call of validate. *)
make_input_file_unvalidated(input) == Ok(input_text(input))

make_input_file(input) ==
    LET v == validate(input)
    IN  IF ~v.ok THEN Err(ErrorInput(v.err)) ELSE Ok(input_text(input))

----------------------------------------------------------------------------
(* qe_workflow.rs: the stage derivations. *)

(* nscf_input leaving nosym unset in the Nscf calculation. *)
nscf_input_nosym_unset(scf, diago_thr_init, num_bands, smearing_type, smearing_size, nscf_nk) ==
    IF scf.calculation.kind = "Scf"
    THEN Ok([scf EXCEPT
               !.calculation = [kind |-> "Nscf",
                                diago_thr_init |-> diago_thr_init,
                                nbnd |-> Some(num_bands),
                                nosym |-> None],
               !.system.occupations = [kind |-> "Smearing",
                                       smearing |-> smearing_type,
                                       size |-> smearing_size],
               !.k_points = [kind |-> "CrystalUniform", nk |-> nscf_nk]])
    ELSE Err("WrongCalculation")

(* nscf_input leaving the occupations of the scf run in place. *)
nscf_input_keeps_occupations(scf, diago_thr_init, num_bands, smearing_type, smearing_size, nscf_nk) ==
    IF scf.calculation.kind = "Scf"
    THEN Ok([scf EXCEPT
               !.calculation = [kind |-> "Nscf",
                                diago_thr_init |-> diago_thr_init,
                                nbnd |-> Some(num_bands),
                                nosym |-> Some(TRUE)],
               !.k_points = [kind |-> "CrystalUniform", nk |-> nscf_nk]])
    ELSE Err("WrongCalculation")

nscf_input(scf, diago_thr_init, num_bands, smearing_type, smearing_size, nscf_nk) ==
    IF scf.calculation.kind = "Scf"
    THEN Ok([scf EXCEPT
               !.calculation = [kind |-> "Nscf",
                                diago_thr_init |-> diago_thr_init,
                                nbnd |-> Some(num_bands),
                                nosym |-> Some(TRUE)],
               !.system.occupations = [kind |-> "Smearing",
                                       smearing |-> smearing_type,
                                       size |-> smearing_size],
               !.k_points = [kind |-> "CrystalUniform", nk |-> nscf_nk]])
    ELSE Err("WrongCalculation")

(* bands_input rejecting Some(false) only: an absent nosym passes. *)
bands_input_absent_passes(nscf, bands_kpoints) ==
    IF nscf.calculation.kind # "Nscf" THEN Err("WrongCalculation")
    ELSE
      LET diago_thr_init == nscf.calculation.diago_thr_init
          nbnd == nscf.calculation.nbnd
          nosym == nscf.calculation.nosym
      IN  IF IsSome(nosym) /\ ~Unwrap(nosym) THEN Err("NoSym")
          ELSE IF bands_kpoints.kind # "CrystalBands" THEN Err("WrongKPointsBands")
          ELSE Ok([nscf EXCEPT
                     !.calculation = [kind |-> "Bands",
                                      diago_thr_init |-> diago_thr_init,
                                      nbnd |-> nbnd,
                                      nosym |-> nosym],
                     !.k_points = bands_kpoints])

bands_input(nscf, bands_kpoints) ==
    IF nscf.calculation.kind # "Nscf" THEN Err("WrongCalculation")
    ELSE
      LET diago_thr_init == nscf.calculation.diago_thr_init
          nbnd == nscf.calculation.nbnd
          nosym == nscf.calculation.nosym
      IN  IF IsSome(nosym) /\ ~Unwrap(nosym) THEN Err("NoSym")
          ELSE IF ~IsSome(nosym) THEN Err("NoSym")
          ELSE IF bands_kpoints.kind # "CrystalBands" THEN Err("WrongKPointsBands")
          ELSE Ok([nscf EXCEPT
                     !.calculation = [kind |-> "Bands",
                                      diago_thr_init |-> diago_thr_init,
                                      nbnd |-> nbnd,
                                      nosym |-> nosym],
                     !.k_points = bands_kpoints])

(* scale_cell with the third vector built from the second row. *)
scale_cell_row_slip(cell, alat) ==
    LET a0 == <<alat * cell[1][1], alat * cell[1][2], alat * cell[1][3]>>
        a1 == <<alat * cell[2][1], alat * cell[2][2], alat * cell[2][3]>>
        a2 == <<alat * cell[2][1], alat * cell[2][2], alat * cell[2][3]>>
    IN  <<a0, a1, a2>>

scale_cell(cell, alat) ==
    LET a0 == <<alat * cell[1][1], alat * cell[1][2], alat * cell[1][3]>>
        a1 == <<alat * cell[2][1], alat * cell[2][2], alat * cell[2][3]>>
        a2 == <<alat * cell[3][1], alat * cell[3][2], alat * cell[3][3]>>
    IN  <<a0, a1, a2>>

(* scale_coords leaving the third component unscaled. *)
scale_coords_two_of_three(coordinates, alat) ==
    LET Scaled(c) == [species |-> c.species,
                      r |-> <<alat * c.r[1], alat * c.r[2], c.r[3]>>]
    IN  [i \in 1..Len(coordinates) |-> Scaled(coordinates[i])]

scale_coords(coordinates, alat) ==
    LET Scaled(c) == [species |-> c.species,
                      r |-> <<alat * c.r[1], alat * c.r[2], alat * c.r[3]>>]
    IN  [i \in 1..Len(coordinates) |-> Scaled(coordinates[i])]

map_coords(coordinates) ==
    LET Mapped(c) == [species |-> c.species, r |-> c.r]
    IN  [i \in 1..Len(coordinates) |-> Mapped(coordinates[i])]

(* w90_input with the k-point check moved ahead of the position frame's. *)
w90_input_kpoints_first(nscf, num_wann, mlwf_iteration_mode, disentanglement, projection_units, projections) ==
    LET calc == nscf.calculation
        spinors == IF IsSome(nscf.system.spin_type)
                   THEN Unwrap(nscf.system.spin_type) = "Noncollinear"
                   ELSE FALSE
        pwcell == nscf.system.ibrav.cell
        unit_cell_cart ==
            CASE pwcell.units = "Alat" ->
                   [units |-> "Bohr", cell |-> scale_cell(pwcell.cell, nscf.system.alat)]
              [] pwcell.units = "Bohr" -> [units |-> "Bohr", cell |-> pwcell.cell]
              [] pwcell.units = "Angstrom" -> [units |-> "Angstrom", cell |-> pwcell.cell]
        pwpos == nscf.atomic_positions
        positions ==
            CASE pwpos.coordinate_type = "AlatCartesian" ->
                   [coordinate_type |-> "BohrCartesian",
                    coordinates |-> scale_coords(pwpos.coordinates, nscf.system.alat)]
              [] pwpos.coordinate_type = "BohrCartesian" ->
                   [coordinate_type |-> "BohrCartesian",
                    coordinates |-> map_coords(pwpos.coordinates)]
              [] pwpos.coordinate_type = "AngstromCartesian" ->
                   [coordinate_type |-> "AngstromCartesian",
                    coordinates |-> map_coords(pwpos.coordinates)]
              [] pwpos.coordinate_type = "Crystal" ->
                   [coordinate_type |-> "Crystal",
                    coordinates |-> map_coords(pwpos.coordinates)]
    IN  IF calc.kind # "Nscf" THEN Err("WrongCalculation")
        ELSE IF ~IsSome(calc.nbnd) THEN Err("NumBands")
        ELSE IF nscf.k_points.kind # "CrystalUniform" THEN Err("WrongKPointsNscf")
        ELSE IF pwpos.coordinate_type = "CrystalSG" THEN Err("CrystalSG")
        ELSE Ok([num_bands |-> Unwrap(calc.nbnd),
                 num_wann |-> num_wann,
                 write_hr |-> Some(TRUE),
                 mlwf_iteration_mode |-> mlwf_iteration_mode,
                 disentanglement |-> Some(disentanglement),
                 spinors |-> spinors,
                 projection_units |-> projection_units,
                 projections |-> projections,
                 unit_cell_cart |-> unit_cell_cart,
                 positions |-> positions,
                 k_points |-> nscf.k_points.nk])

w90_input(nscf, num_wann, mlwf_iteration_mode, disentanglement, projection_units, projections) ==
    LET calc == nscf.calculation
        spinors == IF IsSome(nscf.system.spin_type)
                   THEN Unwrap(nscf.system.spin_type) = "Noncollinear"
                   ELSE FALSE
        pwcell == nscf.system.ibrav.cell
        unit_cell_cart ==
            CASE pwcell.units = "Alat" ->
                   [units |-> "Bohr", cell |-> scale_cell(pwcell.cell, nscf.system.alat)]
              [] pwcell.units = "Bohr" -> [units |-> "Bohr", cell |-> pwcell.cell]
              [] pwcell.units = "Angstrom" -> [units |-> "Angstrom", cell |-> pwcell.cell]
        pwpos == nscf.atomic_positions
        positions ==
            CASE pwpos.coordinate_type = "AlatCartesian" ->
                   [coordinate_type |-> "BohrCartesian",
                    coordinates |-> scale_coords(pwpos.coordinates, nscf.system.alat)]
              [] pwpos.coordinate_type = "BohrCartesian" ->
                   [coordinate_type |-> "BohrCartesian",
                    coordinates |-> map_coords(pwpos.coordinates)]
              [] pwpos.coordinate_type = "AngstromCartesian" ->
                   [coordinate_type |-> "AngstromCartesian",
                    coordinates |-> map_coords(pwpos.coordinates)]
              [] pwpos.coordinate_type = "Crystal" ->
                   [coordinate_type |-> "Crystal",
                    coordinates |-> map_coords(pwpos.coordinates)]
    IN  IF calc.kind # "Nscf" THEN Err("WrongCalculation")
        ELSE IF ~IsSome(calc.nbnd) THEN Err("NumBands")
        ELSE IF pwpos.coordinate_type = "CrystalSG" THEN Err("CrystalSG")
        ELSE IF nscf.k_points.kind # "CrystalUniform" THEN Err("WrongKPointsNscf")
        ELSE Ok([num_bands |-> Unwrap(calc.nbnd),
                 num_wann |-> num_wann,
                 write_hr |-> Some(TRUE),
                 mlwf_iteration_mode |-> mlwf_iteration_mode,
                 disentanglement |-> Some(disentanglement),
                 spinors |-> spinors,
                 projection_units |-> projection_units,
                 projections |-> projections,
                 unit_cell_cart |-> unit_cell_cart,
                 positions |-> positions,
                 k_points |-> nscf.k_points.nk])

----------------------------------------------------------------------------
(* The values the callers supply, bounded. *)

SeqsUpTo(S, n) == UNION {[1..k -> S] : k \in 0..n}

Vec(c) == <<c + 1, 0 - (c + 2), c + 3>>

CellOf(c) == << <<c + 1, 0 - (c + 2), c + 3>>,
                <<c + 4, c + 5, 0 - (c + 6)>>,
                <<0 - (c + 7), c + 8, c + 9>> >>

Cells == {CellOf(c) : c \in 0..MaxCoord}

Grids == {<<a, b, 1>> : a, b \in 1..MaxGrid}

AtomSe == [species |-> "Se", r |-> Vec(0)]
AtomW == [species |-> "W", r |-> Vec(MaxCoord)]

AtomLists == SeqsUpTo({AtomSe, AtomW}, MaxAtoms)

(* input.rs: Projection, ProjectionSite, AngularMomentum *)
Site(site, ang_mtm, zaxis, xaxis, radial, zona) ==
    [kind |-> "Site", site |-> site, ang_mtm |-> ang_mtm, zaxis |-> zaxis,
     xaxis |-> xaxis, radial |-> radial, zona |-> zona]

ProjectionSites ==
    {[kind |-> "Species", species |-> "Se"],
     [kind |-> "CenterCartesian", r |-> Vec(0)],
     [kind |-> "CenterCrystal", r |-> Vec(MaxCoord)]}

AngularMomenta == {"S", "P", "D", "F"}

Projections ==
    {Random} \cup
    {Site(st, am, z, x, r, zo) :
        st \in ProjectionSites,
        am \in SeqsUpTo(AngularMomenta, MaxAngMtm),
        z \in {None, Some(<<0, 0, 1>>)},
        x \in {None, Some(<<1, 0, 0>>)},
        r \in {None, Some(2)},
        zo \in {None, Some(3)}}

SiteWD == Site([kind |-> "Species", species |-> "W"], <<"D">>,
               None, None, Some(2), None)

ProjectionLists == SeqsUpTo({Random, SiteWD}, MaxProj)

(* input.rs: MLWFIterationMode, Disentanglement *)
IterationModes ==
    {[kind |-> "ProjectionOnly"]} \cup
    {[kind |-> "MLWF", num_iter |-> n] : n \in 0..MaxIter}

Dis0 == [dis_win_min |-> 0 - 6, dis_win_max |-> 8, dis_froz_min |-> 0 - 4,
         dis_froz_max |-> 6, dis_num_iter |-> 1000, dis_mix_ratio |-> 1]

W90Units == {"Bohr", "Angstrom"}
W90Coords == {"BohrCartesian", "AngstromCartesian", "Crystal"}

(* input.rs: Input, as a caller constructs it. The struct names the grid   *)
(* kpoints; serialize.rs and qe_workflow.rs read and write it as k_points, *)
(* the name kept here.                                                     *)
MkInput(h, p, g) ==
    [num_bands |-> 44, num_wann |-> 22, write_hr |-> h.write_hr,
     mlwf_iteration_mode |-> h.mode, disentanglement |-> h.dis,
     spinors |-> p.spinors, projection_units |-> p.units,
     projections |-> p.projections,
     unit_cell_cart |-> g.cell, positions |-> g.positions, k_points |-> g.nk]

HeaderChoices ==
    {[write_hr |-> w, mode |-> m, dis |-> d] :
        w \in {None, Some(TRUE), Some(FALSE)}, m \in IterationModes,
        d \in {None, Some(Dis0)}}

ProjChoices ==
    {[spinors |-> sp, units |-> u, projections |-> ps] :
        sp \in BOOLEAN, u \in {None} \cup {Some(x) : x \in W90Units},
        ps \in ProjectionLists}

PositionChoices ==
    {[coordinate_type |-> t, coordinates |-> cs] : t \in W90Coords, cs \in AtomLists}

CellChoices == {[units |-> u, cell |-> c] : u \in W90Units, c \in Cells}

Header0 == [write_hr |-> Some(TRUE), mode |-> [kind |-> "ProjectionOnly"],
            dis |-> Some(Dis0)]
Proj0 == [spinors |-> TRUE, units |-> None, projections |-> <<SiteWD>>]
Cell0 == [units |-> "Bohr", cell |-> CellOf(0)]
Pos0 == [coordinate_type |-> "Crystal", coordinates |-> <<AtomSe, AtomW>>]
Geom0 == [cell |-> Cell0, positions |-> Pos0, nk |-> <<1, 1, 1>>]

(* Inputs that vary the positions (and the cell and grid) *)
PositionInputs ==
    {MkInput(h, Proj0, [cell |-> Cell0, positions |-> ps, nk |-> <<1, 1, 1>>]) :
        h \in HeaderChoices, ps \in PositionChoices}
    \cup
    {MkInput(Header0, Proj0, [cell |-> c, positions |-> Pos0, nk |-> nk]) :
        c \in CellChoices, nk \in Grids}

Inputs ==
    {MkInput(h, p, Geom0) : h \in HeaderChoices, p \in ProjChoices}
    \cup
    {MkInput(Header0, p, [cell |-> Cell0, positions |-> ps, nk |-> <<1, 1, 1>>]) :
        p \in ProjChoices, ps \in PositionChoices}
    \cup PositionInputs

----------------------------------------------------------------------------
(* The upstream pw.x configurations (qe::pw::input::Input), bounded. *)

Calculations ==
    {[kind |-> "Scf"]} \cup
    {[kind |-> k, diago_thr_init |-> t, nbnd |-> nb, nosym |-> ns] :
        k \in {"Nscf", "Bands"}, t \in 1..2, nb \in {None, Some(44)},
        ns \in {None, Some(TRUE), Some(FALSE)}}

BandPath == [kind |-> "CrystalBands", path |-> <<Vec(0), Vec(1)>>]

KPointSpecs ==
    {[kind |-> "CrystalUniform", nk |-> g] : g \in Grids}
    \cup {BandPath, [kind |-> "Automatic", nk |-> <<1, 1, 1>>]}

OccupationKinds ==
    {[kind |-> "Fixed"], [kind |-> "Smearing", smearing |-> "Gaussian", size |-> 1]}

SpinTypes ==
    {None, Some("NonPolarized"), Some("CollinearPolarized"), Some("Noncollinear")}

PwCells == {[units |-> u, cell |-> c] : u \in {"Alat", "Bohr", "Angstrom"}, c \in Cells}

PwCoords == {"AlatCartesian", "BohrCartesian", "AngstromCartesian", "Crystal", "CrystalSG"}

MkPw(calc, kp, occ, spin, cell, alat, ptype, coords) ==
    [calculation |-> calc,
     system |-> [occupations |-> occ, spin_type |-> spin,
                 ibrav |-> [kind |-> "Free", cell |-> cell], alat |-> alat],
     k_points |-> kp,
     atomic_positions |-> [coordinate_type |-> ptype, coordinates |-> coords]]

Nscf0 == [kind |-> "Nscf", diago_thr_init |-> 1, nbnd |-> Some(44), nosym |-> Some(TRUE)]
Uniform0 == [kind |-> "CrystalUniform", nk |-> <<MaxGrid, 1, 1>>]
Occ0 == [kind |-> "Fixed"]
PwCell0 == [units |-> "Alat", cell |-> CellOf(0)]

PwInputs ==
    {MkPw(c, kp, Occ0, None, PwCell0, 2, t, <<AtomSe, AtomW>>) :
        c \in Calculations, kp \in KPointSpecs, t \in PwCoords}
    \cup
    {MkPw(Nscf0, Uniform0, o, sp, cell, a, "Crystal", <<AtomSe>>) :
        o \in OccupationKinds, sp \in SpinTypes, cell \in PwCells, a \in 1..MaxAlat}
    \cup
    {MkPw(Nscf0, kp, Occ0, None, PwCell0, a, t, cs) :
        kp \in {Uniform0, BandPath}, a \in 1..MaxAlat, t \in PwCoords, cs \in AtomLists}
    \cup
    {MkPw([kind |-> "Scf"], kp, o, sp, cell, 1, "AlatCartesian", <<AtomW>>) :
        kp \in KPointSpecs, o \in OccupationKinds, sp \in SpinTypes, cell \in PwCells}

NscfArgs ==
    {[diago_thr_init |-> t, num_bands |-> 20, smearing_type |-> "MarzariVanderbilt",
      smearing_size |-> 3, nscf_nk |-> nk] :
        t \in 1..2, nk \in {<<1, 1, 1>>, <<1, MaxGrid, 1>>}}

W90Args ==
    {[num_wann |-> 22, mlwf_iteration_mode |-> m, disentanglement |-> Dis0,
      projection_units |-> u, projections |-> ps] :
        m \in {[kind |-> "ProjectionOnly"], [kind |-> "MLWF", num_iter |-> MaxIter]},
        u \in {None, Some("Angstrom")},
        ps \in {<<SiteWD>>, <<Random, Random>>}}

----------------------------------------------------------------------------
(* The state: the last operation a caller ran, with its upstream value up,  *)
(* its other arguments args and its result res. ty is the type of the value *)
(* an Ok result carries. Initially the caller has constructed a value (op   *)
(* "new"); an operation takes the value the operation before it returned,   *)
(* and src names that operation.                                            *)

Init ==
    \/ \E u \in PwInputs : call = [op |-> "new", ty |-> "PwInput", res |-> Ok(u)]
    \/ \E i \in Inputs : call = [op |-> "new", ty |-> "W90Input", res |-> Ok(i)]
    \/ \E p \in Projections : call = [op |-> "new", ty |-> "Projection", res |-> Ok(p)]

Holds(ty) == call.ty = ty /\ call.res.ok

NscfInput ==
    /\ Holds("PwInput")
    /\ \E a \in NscfArgs :
        call' = [op |-> "nscf_input", src |-> call.op, up |-> call.res.val,
                 args |-> a, ty |-> "PwInput",
                 res |-> nscf_input(call.res.val, a.diago_thr_init, a.num_bands,
                                    a.smearing_type, a.smearing_size, a.nscf_nk)]

BandsInput ==
    /\ Holds("PwInput")
    /\ \E kp \in KPointSpecs :
        call' = [op |-> "bands_input", src |-> call.op, up |-> call.res.val,
                 args |-> kp, ty |-> "PwInput",
                 res |-> bands_input(call.res.val, kp)]

W90Input ==
    /\ Holds("PwInput")
    /\ \E a \in W90Args :
        call' = [op |-> "w90_input", src |-> call.op, up |-> call.res.val,
                 args |-> a, ty |-> "W90Input",
                 res |-> w90_input(call.res.val, a.num_wann, a.mlwf_iteration_mode,
                                   a.disentanglement, a.projection_units,
                                   a.projections)]

Validate ==
    /\ Holds("W90Input")
    /\ call' = [op |-> "validate", src |-> call.op, up |-> call.res.val,
                ty |-> "Unit", res |-> validate(call.res.val)]

MakeInputFile ==
    /\ Holds("W90Input")
    /\ call' = [op |-> "make_input_file", src |-> call.op, up |-> call.res.val,
                ty |-> "String", res |-> make_input_file(call.res.val)]

MakePositions ==
    /\ Holds("W90Input")
    /\ call' = [op |-> "make_positions", src |-> call.op, up |-> call.res.val,
                ty |-> "String", res |-> Ok(make_positions(call.res.val))]

FieldValue ==
    /\ Holds("Projection")
    /\ call' = [op |-> "value", src |-> call.op, up |-> call.res.val,
                ty |-> "String", res |-> Ok(ProjectionValue(call.res.val))]

Next ==
    \/ NscfInput
    \/ BandsInput
    \/ W90Input
    \/ Validate
    \/ MakeInputFile
    \/ MakePositions
    \/ FieldValue

Spec == Init /\ [][Next]_vars

----------------------------------------------------------------------------
(* Reading a produced text back: its pieces between separators. *)

HasTok(t, sep) == \E k \in 1..Len(t) : t[k] = sep

FirstTok(t, sep) == CHOOSE k \in 1..Len(t) : t[k] = sep /\ \A j \in 1..(k - 1) : t[j] # sep

RECURSIVE SplitBy(_, _)
SplitBy(t, sep) ==
    IF ~HasTok(t, sep) THEN <<t>>
    ELSE LET k == FirstTok(t, sep)
         IN  <<SubSeq(t, 1, k - 1)>> \o SplitBy(SubSeq(t, k + 1, Len(t)), sep)

Lines(t) == SplitBy(t, NL)

(* The key of a line: its first token ("" for an empty line). *)
Key(line) == IF line = <<>> THEN "" ELSE line[1]

(* The indices of the lines of L that equal one of the lines in ms. *)
At(L, ms) == {i \in 1..Len(L) : L[i] \in ms}

(* The indices of the lines of L whose key is k. *)
Keyed(L, k) == {i \in 1..Len(L) : Key(L[i]) = k}

The(S) == CHOOSE x \in S : TRUE

----------------------------------------------------------------------------
(* C1: validate returns an error list containing RandomCount if and only if *)
(* the projections hold two or more Random entries; with zero or one Random *)
(* entry it returns Ok(()), whatever the other fields are.                  *)

TwoRandoms(ps) ==
    \E i, j \in 1..Len(ps) : i < j /\ ps[i] = Random /\ ps[j] = Random

C1_ValidateRandomCount ==
    call.op = "validate" =>
        IF TwoRandoms(call.up.projections)
        THEN /\ ~call.res.ok
             /\ \E k \in 1..Len(call.res.err.errs) : call.res.err.errs[k] = "RandomCount"
        ELSE call.res = Ok(<<>>)

C1_Witness ==
    /\ call.op = "validate"
    /\ Len(call.up.projections) = 3
    /\ TwoRandoms(call.up.projections)
    /\ \E i \in 1..3 : call.up.projections[i] # Random
    /\ ~call.res.ok

(* C2: make_input_file validates first. When validate fails it returns      *)
(* Err(Error::Input(list)) with the validator's list and no text at all;    *)
(* when validate succeeds it returns Ok with the complete document, from    *)
(* the num_bands line to the `end kpoints` line.                            *)

C2_ValidateFirst ==
    call.op = "make_input_file" =>
        LET v == validate(call.up)
        IN  IF ~v.ok
            THEN /\ DOMAIN call.res = {"ok", "err"}
                 /\ ~call.res.ok
                 /\ call.res.err = [kind |-> "Input", errs |-> v.err]
                 /\ v.err.errs # <<>>
            ELSE /\ DOMAIN call.res = {"ok", "val"}
                 /\ call.res.ok
                 /\ LET L == Lines(call.res.val)
                    IN  /\ Key(L[1]) = "num_bands"
                        /\ L[Len(L)] = <<"end", " ", "kpoints">>

C2_Witness ==
    /\ call.op = "make_input_file"
    /\ TwoRandoms(call.up.projections)
    /\ ~call.res.ok
    /\ call.res.err.errs.errs = <<"RandomCount">>

(* C3: for a valid Input the document holds its sections once each and in   *)
(* this order: header, disentanglement block (present iff the field is      *)
(* Some), projections block, unit_cell_cart block, positions block,         *)
(* k-points block, which ends the document.                                 *)

BeginAtoms == {<<"begin", " ", "atoms_cart">>, <<"begin", " ", "atoms_frac">>}
EndAtoms == {<<"end", " ", "atoms_cart">>, <<"end", " ", "atoms_frac">>}

C3_SectionOrder ==
    (call.op = "make_input_file" /\ call.res.ok) =>
        LET L == Lines(call.res.val)
            header == Keyed(L, "num_bands")
            dis == Keyed(L, "dis_win_min")
            disEnd == Keyed(L, "dis_mix_ratio")
            projB == At(L, {<<"begin", " ", "projections">>})
            projE == At(L, {<<"end", " ", "projections">>})
            cellB == At(L, {<<"begin", " ", "unit_cell_cart">>})
            cellE == At(L, {<<"end", " ", "unit_cell_cart">>})
            posB == At(L, BeginAtoms)
            posE == At(L, EndAtoms)
            kB == Keyed(L, "mp_grid")
            kE == At(L, {<<"end", " ", "kpoints">>})
            once == <<header, projB, projE, cellB, cellE, posB, posE, kB, kE>>
        IN  /\ \A n \in 1..Len(once) : Cardinality(once[n]) = 1
            /\ header = {1}
            /\ IF IsSome(call.up.disentanglement)
               THEN /\ Cardinality(dis) = 1 /\ Cardinality(disEnd) = 1
                    /\ 1 < The(dis) /\ The(dis) < The(disEnd)
                    /\ The(disEnd) < The(projB)
               ELSE dis = {} /\ disEnd = {}
            /\ \A n \in 1..(Len(once) - 1) : The(once[n]) < The(once[n + 1])
            /\ The(kE) = Len(L)

C3_Witness ==
    /\ call.op = "make_input_file"
    /\ call.res.ok
    /\ IsSome(call.up.disentanglement)
    /\ Len(call.up.projections) = 2
    /\ Len(call.up.positions.coordinates) = 2
    /\ call.up.positions.coordinate_type = "BohrCartesian"

(* C4: for a valid Input the header block is the lines `num_bands = n`,     *)
(* `num_wann = n`, `num_iter = n` (0 for ProjectionOnly) in that order,     *)
(* followed by one more line iff write_hr is Some; that line is a boolean   *)
(* field with a key of its own and the value .true. or .false., so the key  *)
(* num_iter is on exactly one header line.                                  *)

(* The header block: the lines before the first line of the next section. *)
HeaderLines(L) ==
    LET next == {i \in 1..Len(L) : Key(L[i]) \in {"dis_win_min", "spinors"}}
        first == CHOOSE i \in next : \A j \in next : i <= j
    IN  SubSeq(L, 1, first - 1)

(* The line without its spaces: <<key, "=", value>> for a field. *)
Squeeze(line) == SelectSeq(line, LAMBDA t : t # " ")

IterationCount(mode) == IF mode.kind = "ProjectionOnly" THEN 0 ELSE mode.num_iter

C4_HeaderBlock ==
    (call.op = "make_input_file" /\ call.res.ok) =>
        LET H == HeaderLines(Lines(call.res.val))
            w == call.up.write_hr
        IN  /\ Len(H) = IF IsSome(w) THEN 4 ELSE 3
            /\ H[1] = <<"num_bands", " ", "=", " ", ToString(call.up.num_bands)>>
            /\ H[2] = <<"num_wann", " ", "=", " ", ToString(call.up.num_wann)>>
            /\ H[3] = <<"num_iter", " ", "=", " ",
                        ToString(IterationCount(call.up.mlwf_iteration_mode))>>
            /\ IsSome(w) =>
                 /\ Len(Squeeze(H[4])) = 3
                 /\ Squeeze(H[4])[2] = "="
                 /\ Squeeze(H[4])[3] = (IF Unwrap(w) THEN ".true." ELSE ".false.")
                 /\ Key(H[4]) \notin {"num_bands", "num_wann", "num_iter"}
            /\ Cardinality(Keyed(H, "num_iter")) = 1

(* C5: nscf_input fails with WrongCalculation unless the upstream           *)
(* calculation is Scf; on an Scf upstream it succeeds and the result is the *)
(* upstream with calculation = Nscf{supplied threshold, Some(supplied band  *)
(* count), Some(true)}, occupations = Smearing(supplied kind, width) and    *)
(* k_points = CrystalUniform(supplied shape), every other field unchanged.  *)

C5_NscfInput ==
    call.op = "nscf_input" =>
        LET up == call.up
            a == call.args
        IN  IF up.calculation.kind # "Scf"
            THEN call.res = Err("WrongCalculation")
            ELSE /\ call.res.ok
                 /\ LET r == call.res.val
                    IN  /\ r.calculation.kind = "Nscf"
                        /\ r.calculation.diago_thr_init = a.diago_thr_init
                        /\ r.calculation.nbnd = <<a.num_bands>>
                        /\ r.calculation.nosym = <<TRUE>>
                        /\ DOMAIN r.calculation =
                              {"kind", "diago_thr_init", "nbnd", "nosym"}
                        /\ r.system.occupations =
                              [kind |-> "Smearing", smearing |-> a.smearing_type,
                               size |-> a.smearing_size]
                        /\ r.k_points = [kind |-> "CrystalUniform", nk |-> a.nscf_nk]
                        /\ DOMAIN r = DOMAIN up
                        /\ DOMAIN r.system = DOMAIN up.system
                        /\ r.atomic_positions = up.atomic_positions
                        /\ \A f \in DOMAIN up.system \ {"occupations"} :
                              r.system[f] = up.system[f]

C5_Witness ==
    /\ call.op = "nscf_input"
    /\ call.up.calculation.kind = "Scf"
    /\ call.up.system.occupations.kind = "Fixed"
    /\ call.up.k_points.kind = "CrystalBands"
    /\ call.res.ok
    /\ call.res.val.k_points.nk = <<1, MaxGrid, 1>>

(* C6: bands_input on an Nscf upstream fails with NoSym when the upstream   *)
(* nosym is Some(false) or None. When nosym is Some(true): with CrystalBands*)
(* k-points it succeeds, the result's calculation is Bands with the         *)
(* upstream diago_thr_init, nbnd and nosym, its k_points are the supplied   *)
(* band path and every other field is the upstream's; with k-points of any  *)
(* other kind it fails with WrongKPointsBands.                              *)

C6_BandsInput ==
    (call.op = "bands_input" /\ call.up.calculation.kind = "Nscf") =>
        LET up == call.up
            kp == call.args
        IN  IF up.calculation.nosym # <<TRUE>>
            THEN call.res = Err("NoSym")
            ELSE IF kp.kind # "CrystalBands"
            THEN call.res = Err("WrongKPointsBands")
            ELSE /\ call.res.ok
                 /\ LET r == call.res.val
                    IN  /\ r.calculation.kind = "Bands"
                        /\ r.calculation.diago_thr_init = up.calculation.diago_thr_init
                        /\ r.calculation.nbnd = up.calculation.nbnd
                        /\ r.calculation.nosym = up.calculation.nosym
                        /\ r.k_points = kp
                        /\ DOMAIN r = DOMAIN up
                        /\ r.system = up.system
                        /\ r.atomic_positions = up.atomic_positions

C6_Witness ==
    /\ call.op = "bands_input"
    /\ call.up.calculation.kind = "Nscf"
    /\ call.up.calculation.nosym = <<TRUE>>
    /\ call.up.calculation.nbnd = None
    /\ call.up.k_points.kind = "CrystalUniform"
    /\ call.args.kind = "CrystalBands"
    /\ call.res.ok

(* C7: when w90_input succeeds the derived cell follows the upstream cell's *)
(* unit tag: for Alat each of the nine components is the upstream component *)
(* times alat and the cell is tagged Bohr; for Bohr and for Angstrom the    *)
(* vectors are unchanged and the tag is kept.                               *)

C7_Cell ==
    (call.op = "w90_input" /\ call.res.ok) =>
        LET pw == call.up.system.ibrav.cell
            alat == call.up.system.alat
            out == call.res.val.unit_cell_cart
        IN  /\ DOMAIN out.cell = 1..3
            /\ \A i \in 1..3 : DOMAIN out.cell[i] = 1..3
            /\ CASE pw.units = "Alat" ->
                      /\ out.units = "Bohr"
                      /\ \A i, j \in 1..3 : out.cell[i][j] = pw.cell[i][j] * alat
                 [] pw.units = "Bohr" -> out.units = "Bohr" /\ out.cell = pw.cell
                 [] pw.units = "Angstrom" ->
                      out.units = "Angstrom" /\ out.cell = pw.cell

C7_Witness ==
    /\ call.op = "w90_input"
    /\ call.res.ok
    /\ call.up.system.ibrav.cell.units = "Alat"
    /\ call.up.system.alat = 2
    /\ call.res.val.unit_cell_cart.cell[3][2] = 2 * call.up.system.ibrav.cell.cell[3][2]

(* C8: in w90_input, once the calculation is an Nscf with a band count, the *)
(* position frame maps as: AlatCartesian to BohrCartesian with every        *)
(* component times alat; BohrCartesian, AngstromCartesian and Crystal to    *)
(* themselves with the coordinates unchanged; CrystalSG fails with          *)
(* CrystalSG. A successful result lists the same atoms in the same order    *)
(* with the same species.                                                   *)

C8_Positions ==
    (/\ call.op = "w90_input"
     /\ call.up.calculation.kind = "Nscf"
     /\ IsSome(call.up.calculation.nbnd)) =>
        LET pw == call.up.atomic_positions
            alat == call.up.system.alat
            n == Len(pw.coordinates)
        IN  IF pw.coordinate_type = "CrystalSG"
            THEN call.res = Err("CrystalSG")
            ELSE call.res.ok =>
                 LET out == call.res.val.positions
                 IN  /\ Len(out.coordinates) = n
                     /\ \A i \in 1..n :
                           out.coordinates[i].species = pw.coordinates[i].species
                     /\ out.coordinate_type =
                           (CASE pw.coordinate_type = "AlatCartesian" -> "BohrCartesian"
                              [] pw.coordinate_type = "BohrCartesian" -> "BohrCartesian"
                              [] pw.coordinate_type = "AngstromCartesian" ->
                                   "AngstromCartesian"
                              [] pw.coordinate_type = "Crystal" -> "Crystal")
                     /\ \A i \in 1..n : \A j \in 1..3 :
                           out.coordinates[i].r[j] =
                              IF pw.coordinate_type = "AlatCartesian"
                              THEN pw.coordinates[i].r[j] * alat
                              ELSE pw.coordinates[i].r[j]

C8_Witness ==
    /\ call.op = "w90_input"
    /\ call.res.ok
    /\ call.up.atomic_positions.coordinate_type = "AlatCartesian"
    /\ call.up.system.alat = 2
    /\ Len(call.res.val.positions.coordinates) = 2
    /\ call.res.val.positions.coordinates[1].species
          # call.res.val.positions.coordinates[2].species

(* C9: for every Input the positions block opens and closes with matching   *)
(* markers chosen by the frame: begin/end atoms_cart for BohrCartesian and  *)
(* AngstromCartesian, begin/end atoms_frac for Crystal. A unit line (`bohr` *)
(* or `ang`) follows the begin marker in the Cartesian cases only. Between  *)
(* them is exactly one ` species x y z` line per atom, in list order.       *)

AtomLine(c) ==
    <<" ", c.species, " ", ToString(c.r[1]), " ", ToString(c.r[2]), " ",
      ToString(c.r[3])>>

C9_PositionsBlock ==
    call.op = "make_positions" =>
        LET L == Lines(call.res.val)
            pos == call.up.positions
            n == Len(pos.coordinates)
            cart == pos.coordinate_type \in {"BohrCartesian", "AngstromCartesian"}
            skip == IF cart THEN 2 ELSE 1
            kind == IF cart THEN "atoms_cart" ELSE "atoms_frac"
        IN  /\ Len(L) = skip + n + 1
            /\ L[1] = <<"begin", " ", kind>>
            /\ L[Len(L)] = <<"end", " ", kind>>
            /\ pos.coordinate_type = "BohrCartesian" => L[2] = <<"bohr">>
            /\ pos.coordinate_type = "AngstromCartesian" => L[2] = <<"ang">>
            /\ pos.coordinate_type = "Crystal" => At(L, {<<"bohr">>, <<"ang">>}) = {}
            /\ \A i \in 1..n : L[skip + i] = AtomLine(pos.coordinates[i])

C9_Witness ==
    /\ call.op = "make_positions"
    /\ call.up.positions.coordinate_type = "Crystal"
    /\ Len(call.up.positions.coordinates) = 2
    /\ call.up.positions.coordinates[1] # call.up.positions.coordinates[2]
    /\ Len(Lines(call.res.val)) = 4

(* C10: Projection::value renders Random as `random`, and a Site as         *)
(* `<site>:` followed by its channels as `l=<n>` (S=0, P=1, D=2, F=3) in    *)
(* order, separated by `;` with none leading or trailing, followed by the   *)
(* suffixes `:z=..`, `:x=..`, `:r=..`, `:zona=..`, each present iff its     *)
(* field is Some, and those present in the order z, x, r, zona.             *)

ChannelNumber(l) ==
    CASE l = "S" -> "0" [] l = "P" -> "1" [] l = "D" -> "2" [] l = "F" -> "3"

CommaList(v) == <<ToString(v[1]), ",", ToString(v[2]), ",", ToString(v[3])>>

(* The suffixes a Site is to carry, in order: <<key, value tokens>>. *)
Suffixes(p) ==
    (IF IsSome(p.zaxis) THEN << <<"z", CommaList(Unwrap(p.zaxis))>> >> ELSE <<>>)
    \o (IF IsSome(p.xaxis) THEN << <<"x", CommaList(Unwrap(p.xaxis))>> >> ELSE <<>>)
    \o (IF IsSome(p.radial) THEN << <<"r", <<ToString(Unwrap(p.radial))>> >> >> ELSE <<>>)
    \o (IF IsSome(p.zona) THEN << <<"zona", <<ToString(Unwrap(p.zona))>> >> >> ELSE <<>>)

C10_ProjectionValue ==
    call.op = "value" =>
        LET p == call.up
            t == call.res.val
        IN  IF p.kind = "Random" THEN t = <<"random">>
            ELSE
              LET F == SplitBy(t, ":")
                  sfx == Suffixes(p)
                  am == p.ang_mtm
                  ch == SplitBy(F[2], ";")
              IN  /\ Len(F) = 2 + Len(sfx)
                  /\ F[1] = ProjectionSiteValue(p.site)
                  /\ IF am = <<>> THEN F[2] = <<>>
                     ELSE /\ Len(ch) = Len(am)
                          /\ \A i \in 1..Len(am) :
                                ch[i] = <<"l", "=", ChannelNumber(am[i])>>
                  /\ \A k \in 1..Len(sfx) :
                        F[2 + k] = <<sfx[k][1], "=">> \o sfx[k][2]

C10_Witness ==
    /\ call.op = "value"
    /\ call.up.kind = "Site"
    /\ call.up.ang_mtm = <<"P", "F">>
    /\ IsSome(call.up.zaxis) /\ ~IsSome(call.up.xaxis)
    /\ ~IsSome(call.up.radial) /\ IsSome(call.up.zona)
    /\ Len(SplitBy(call.res.val, ":")) = 4

(* C11: w90_input returns one typed error, that of the first precondition   *)
(* violated in the order: calculation is not Nscf (WrongCalculation), nbnd  *)
(* absent (NumBands), position frame CrystalSG (CrystalSG), k-points not    *)
(* CrystalUniform (WrongKPointsNscf). It succeeds exactly when none is      *)
(* violated; then num_bands is the upstream nbnd and the grid the upstream  *)
(* shape. The upstream config is the same value after the call as before,   *)
(* on success and on failure.                                               *)

C11_Violations(up) ==
    (IF up.calculation.kind # "Nscf" THEN <<"WrongCalculation">>
     ELSE IF up.calculation.nbnd = None THEN <<"NumBands">> ELSE <<>>)
    \o (IF up.atomic_positions.coordinate_type = "CrystalSG"
        THEN <<"CrystalSG">> ELSE <<>>)
    \o (IF up.k_points.kind # "CrystalUniform" THEN <<"WrongKPointsNscf">> ELSE <<>>)

C11_Outcome(before, c) ==
    LET bad == C11_Violations(c.up)
    IN  /\ c.up = before
        /\ c.res.ok <=> bad = <<>>
        /\ ~c.res.ok =>
             /\ DOMAIN c.res = {"ok", "err"}
             /\ c.res.err = bad[1]
        /\ c.res.ok =>
             /\ c.res.val.num_bands = c.up.calculation.nbnd[1]
             /\ c.res.val.k_points = c.up.k_points.nk

C11_W90InputErrors ==
    [][call'.op = "w90_input" => C11_Outcome(call.res.val, call')]_vars

C11_Witness ==
    /\ call.op = "w90_input"
    /\ Len(C11_Violations(call.up)) = 2
    /\ call.up.atomic_positions.coordinate_type = "CrystalSG"
    /\ call.up.k_points.kind = "CrystalBands"
    /\ call.res = Err("CrystalSG")

(* C12: the order of the stages. A config produced by nscf_input is         *)
(* accepted by bands_input whenever the supplied k-points are CrystalBands  *)
(* (it never fails with WrongCalculation or NoSym), is rejected by          *)
(* nscf_input, and never makes w90_input fail with WrongCalculation,        *)
(* NumBands or WrongKPointsNscf. A config produced by bands_input is        *)
(* rejected with WrongCalculation by nscf_input, bands_input and w90_input. *)
(* On an Scf config only nscf_input succeeds: bands_input and w90_input     *)
(* fail with WrongCalculation. So from an Scf config the chains that        *)
(* succeed are scf -> nscf_input -> bands_input and                         *)
(* scf -> nscf_input -> w90_input, and no others.                           *)

Derivations == {"nscf_input", "bands_input", "w90_input"}

C12_StageOrder ==
    call.op \in Derivations =>
        /\ call.src = "nscf_input" =>
             /\ call.op = "nscf_input" => call.res = Err("WrongCalculation")
             /\ call.op = "bands_input" =>
                  /\ call.res.ok <=> call.args.kind = "CrystalBands"
                  /\ ~call.res.ok => call.res = Err("WrongKPointsBands")
             /\ call.op = "w90_input" =>
                  call.res.ok \/ call.res = Err("CrystalSG")
        /\ call.src = "bands_input" => call.res = Err("WrongCalculation")
        /\ call.up.calculation.kind = "Scf" =>
             /\ call.src = "new"
             /\ call.op = "nscf_input" => call.res.ok
             /\ call.op # "nscf_input" => call.res = Err("WrongCalculation")
        /\ (call.res.ok /\ call.src # "new") =>
             call.src = "nscf_input" /\ call.op \in {"bands_input", "w90_input"}

C12_Witness ==
    /\ call.op = "bands_input"
    /\ call.src = "nscf_input"
    /\ call.up.system.occupations.kind = "Smearing"
    /\ call.args.kind = "CrystalBands"
    /\ call.res.ok
    /\ call.res.val.calculation.kind = "Bands"

====
